---- MODULE Spec2Model ----
\* Model of sanity_check/images/check_images.py: the per-issue checks
\* (check_original_issue, check_canonical_issue) and the journal-level
\* aggregation (check_original_journal, check_canonical_journal).
EXTENDS Integers, Sequences, FiniteSets, TLC

VARIABLES pc,                  \* position of the entry point under check
          issue_dir_original,  \* argument of the per-issue checks (original side)
          issue_dir_canonical, \* argument of check_canonical_issue (canonical side)
          original_issues,     \* argument of the journal checks
          canonical_issues,    \* argument of check_canonical_journal
          results,             \* what utils.executetask returned
          returned,            \* the value returned by the entry point
          locals,              \* local variables of the last per-issue check
          open_handles         \* archives and files opened and not closed so far

vars == <<pc, issue_dir_original, issue_dir_canonical, original_issues,
          canonical_issues, results, returned, locals, open_handles>>

\* ---------------------------------------------------------------- bounds
MaxPages == 3          \* page folders of one original container
MaxPngPerPage == 2     \* png images found under one page folder
MaxIssues == 2         \* issues of a journal
MaxJournalItems == 1   \* page folders, jp2 files and records per issue in the journal runs
MaxPairPages == 2      \* page folders of the original issue of a pair
MaxJp2 == 2            \* jp2 files of one canonical directory
MaxRecords == 2        \* records of one metadata file

\* ---------------------------------------------------------------- helpers
RECURSIVE SeqsUpTo(_, _)
SeqsUpTo(S, n) ==
    IF n = 0 THEN {<<>>}
    ELSE LET shorter == SeqsUpTo(S, n - 1)
         IN  shorter \cup {Append(s, x) : s \in {t \in shorter : Len(t) = n - 1}, x \in S}

RECURSIVE SumSeq(_)
SumSeq(s) == IF s = <<>> THEN 0 ELSE Head(s) + SumSeq(Tail(s))

EmptyDict == <<>>

\* d.setdefault(k, []).append(x)
SetDefaultAppend(d, k, x) ==
    IF k \in DOMAIN d THEN [d EXCEPT ![k] = Append(@, x)]
    ELSE d @@ (k :> <<x>>)

\* ---------------------------------------------------------------- enums
OriginalImageCase ==
    <<"issues w/o zip", "issues w/ corruptedzip",
      "issues_homogeneouscoverage_tifs", "issues_homogeneouscoverage_pngs",
      "issues_homogeneouscoverage_jpgs", "issues_homogeneouscoverage_singlepngs",
      "issues_heterocoverage_all", "issues_heterocoverage_tif_png",
      "issues_heterocoverage_tif_jpg", "issues_heterocoverage_png_jpg",
      "issues_missing_pageimg">>

OriginalJournalStats ==
    <<"number original issues", "number valid original issues",
      "issues w large pdf", "issues w small pdfs", "number of pages",
      "number tif", "number png", "number jpg">>

Values(enum) == {enum[i] : i \in 1..Len(enum)}

initialize_dict(enum_key, def_value) == [k \in Values(enum_key) |-> def_value]

\* ---------------------------------------------------------------- inputs
\* What the archive accessor finds under one page folder: how many tif, png
\* and jpg images carry that page's number.
PageKinds == [tif : 0..1, png : 0..MaxPngPerPage, jpg : 0..1]

\* In the journal runs a page holds at most one image.
JournalPageKinds == {k \in PageKinds : k.tif + k.png + k.jpg <= 1}

\* The identity of the i-th issue of a journal.
IssueIds == <<"i1", "i2", "i3", "i4">>

NoArchive == [pages |-> <<>>, big_pdfs |-> FALSE, small_pdfs |-> FALSE]

\* An original issue directory: the state of <path>/Document.zip, the page
\* folders of the archive with their images, and the pdf files beside it.
OriginalIssueDirs(id, kinds, maxPages) ==
    {[id |-> id, zip |-> z] @@ NoArchive : z \in {"absent", "corrupt"}}
    \cup {[id |-> id, zip |-> "ok", pages |-> p, big_pdfs |-> b, small_pdfs |-> s] :
            p \in SeqsUpTo(kinds, maxPages), b \in BOOLEAN, s \in BOOLEAN}

NoIssue == [id |-> "none", zip |-> "absent"] @@ NoArchive
NoCanonicalIssue == [id |-> "none", jp2 |-> <<>>, info |-> <<>>, records |-> <<>>]

\* path.get_issueshortpath(issue_dir), and the short paths of the files and
\* page folders below it: all identifiers have the same shape.
ShortPath(id) == [issue |-> id, kind |-> "issue", name |-> <<>>]

\* ---------------------------------------------------------------- check_original_issue
\* len(img_utils.get_img_from_archive(archive, ..., ext)) for ext = tif/png/jpg
NumberTif(pages) == SumSeq([i \in 1..Len(pages) |-> pages[i].tif])
NumberPng(pages) == SumSeq([i \in 1..Len(pages) |-> pages[i].png])
NumberJpg(pages) == SumSeq([i \in 1..Len(pages) |-> pages[i].jpg])

\* img_utils.get_tif / get_png / get_jpg (... is not None)
HasTif(page) == page.tif > 0
HasPng(page) == page.png > 0
HasJpg(page) == page.jpg > 0

InitCounters == [pages_with_tifs |-> 0, pages_with_pngs |-> 0,
                 pages_with_several_pngs |-> 0, pages_with_one_pngs |-> 0,
                 pages_with_jpgs |-> 0]

\* The groups d built from pngs: one key per page folder that holds a png.
SeveralPngGroups(pages) == Cardinality({i \in 1..Len(pages) : pages[i].png > 1})
OnePngGroups(pages) == Cardinality({i \in 1..Len(pages) : pages[i].png = 1})

\* CountPage with the png and jpg lookups made for every page, not only for the
\* pages the preferred format misses.
CountPage_NoElse(c, page, pages) ==
    [c EXCEPT !.pages_with_tifs = @ + (IF HasTif(page) THEN 1 ELSE 0),
              !.pages_with_pngs = @ + (IF HasPng(page) THEN 1 ELSE 0),
              !.pages_with_several_pngs = @ + (IF HasPng(page) THEN SeveralPngGroups(pages) ELSE 0),
              !.pages_with_one_pngs = @ + (IF HasPng(page) THEN OnePngGroups(pages) ELSE 0),
              !.pages_with_jpgs = @ + (IF HasJpg(page) THEN 1 ELSE 0)]

\* Body of "for page in page_folders" for one page.
CountPage(c, page, pages) ==
    IF HasTif(page)
    THEN [c EXCEPT !.pages_with_tifs = @ + 1]
    ELSE IF HasPng(page)
         THEN [c EXCEPT !.pages_with_pngs = @ + 1,
                        !.pages_with_several_pngs = @ + SeveralPngGroups(pages),
                        !.pages_with_one_pngs = @ + OnePngGroups(pages)]
         ELSE IF HasJpg(page)
              THEN [c EXCEPT !.pages_with_jpgs = @ + 1]
              ELSE c

RECURSIVE CountPages(_, _, _)
CountPages(c, rest, pages) ==
    IF rest = <<>> THEN c
    ELSE CountPages(CountPage(c, Head(rest), pages), Tail(rest), pages)

\* MixedCase with the tif+png and tif+jpg labels exchanged.
MixedCase_Swapped(c) ==
    IF c.pages_with_tifs # 0 /\ c.pages_with_pngs # 0 /\ c.pages_with_jpgs # 0
       THEN "issues_heterocoverage_all"
    ELSE IF c.pages_with_tifs # 0 /\ c.pages_with_pngs # 0 /\ c.pages_with_jpgs = 0
       THEN "issues_heterocoverage_tif_jpg"
    ELSE IF c.pages_with_tifs # 0 /\ c.pages_with_pngs = 0 /\ c.pages_with_jpgs # 0
       THEN "issues_heterocoverage_tif_png"
    ELSE IF c.pages_with_tifs = 0 /\ c.pages_with_pngs # 0 /\ c.pages_with_jpgs # 0
       THEN "issues_heterocoverage_png_jpg"
    ELSE "None"

\* "mixed cases" (lines 423-430); "None" when no mixed branch matches.
MixedCase(c) ==
    LET pages_with_tifs == c.pages_with_tifs
        pages_with_pngs == c.pages_with_pngs
        pages_with_jpgs == c.pages_with_jpgs
    IN  IF pages_with_tifs # 0 /\ pages_with_pngs # 0 /\ pages_with_jpgs # 0
           THEN "issues_heterocoverage_all"
        ELSE IF pages_with_tifs # 0 /\ pages_with_pngs # 0 /\ pages_with_jpgs = 0
           THEN "issues_heterocoverage_tif_png"
        ELSE IF pages_with_tifs # 0 /\ pages_with_pngs = 0 /\ pages_with_jpgs # 0
           THEN "issues_heterocoverage_tif_jpg"
        ELSE IF pages_with_tifs = 0 /\ pages_with_pngs # 0 /\ pages_with_jpgs # 0
           THEN "issues_heterocoverage_png_jpg"
        ELSE "None"

\* NonMixedCase with the all-png branch labelled singlepngs.
NonMixedCase_PngsAsSingle(c, total) ==
    IF c.pages_with_tifs = total /\ c.pages_with_pngs = 0 /\ c.pages_with_jpgs = 0
       THEN "issues_homogeneouscoverage_tifs"
    ELSE IF c.pages_with_tifs = 0 /\ c.pages_with_pngs = total /\ c.pages_with_jpgs = 0
       THEN "issues_homogeneouscoverage_singlepngs"
    ELSE IF c.pages_with_tifs = 0 /\ c.pages_with_pngs = 0 /\ c.pages_with_jpgs = total
       THEN "issues_homogeneouscoverage_jpgs"
    ELSE "None"

\* NonMixedCase whose only-tif branch asks for at least one page.
NonMixedCase_TifsNeedPages(c, total) ==
    IF c.pages_with_tifs = total /\ total # 0 /\ c.pages_with_pngs = 0 /\ c.pages_with_jpgs = 0
       THEN "issues_homogeneouscoverage_tifs"
    ELSE IF c.pages_with_tifs = 0 /\ c.pages_with_pngs = total /\ c.pages_with_jpgs = 0
       THEN "issues_homogeneouscoverage_pngs"
    ELSE IF c.pages_with_tifs = 0 /\ c.pages_with_pngs = 0 /\ c.pages_with_jpgs = total
       THEN "issues_homogeneouscoverage_jpgs"
    ELSE IF c.pages_with_tifs = 0 /\ c.pages_with_one_pngs # 0
            /\ c.pages_with_one_pngs + c.pages_with_several_pngs = total
            /\ c.pages_with_jpgs = 0
       THEN "issues_homogeneouscoverage_singlepngs"
    ELSE "None"

\* "non mixed cases" and "collecting issues with several pngs" (lines 432-440).
NonMixedCase(c, total) ==
    LET pages_with_tifs == c.pages_with_tifs
        pages_with_pngs == c.pages_with_pngs
        pages_with_jpgs == c.pages_with_jpgs
        pages_with_one_pngs == c.pages_with_one_pngs
        total_pngs == c.pages_with_one_pngs + c.pages_with_several_pngs
    IN  IF pages_with_tifs = total /\ pages_with_pngs = 0 /\ pages_with_jpgs = 0
           THEN "issues_homogeneouscoverage_tifs"
        ELSE IF pages_with_tifs = 0 /\ pages_with_pngs = total /\ pages_with_jpgs = 0
           THEN "issues_homogeneouscoverage_pngs"
        ELSE IF pages_with_tifs = 0 /\ pages_with_pngs = 0 /\ pages_with_jpgs = total
           THEN "issues_homogeneouscoverage_jpgs"
        ELSE IF pages_with_tifs = 0 /\ pages_with_one_pngs # 0
                /\ total_pngs = total /\ pages_with_jpgs = 0
           THEN "issues_homogeneouscoverage_singlepngs"
        ELSE "None"

\* "reporting cases": the case chosen from the counters ("None" when no
\* branch matches).
ReportCase(c, page_number) ==
    LET total == c.pages_with_tifs + c.pages_with_pngs + c.pages_with_jpgs
    IN  IF total = page_number
        THEN IF MixedCase(c) # "None" THEN MixedCase(c) ELSE NonMixedCase(c, total)
        ELSE "issues_missing_pageimg"

\* ValidStats without the count of the issue as valid.
ValidStats_NotCounted(issue) ==
    [initialize_dict(OriginalJournalStats, 0) EXCEPT
        !["number of pages"] = @ + Len(issue.pages),
        !["number tif"] = @ + NumberTif(issue.pages),
        !["number png"] = @ + NumberPng(issue.pages),
        !["number jpg"] = @ + NumberJpg(issue.pages),
        !["issues w large pdf"] = @ + (IF issue.big_pdfs THEN 1 ELSE 0),
        !["issues w small pdfs"] = @ + (IF issue.small_pdfs THEN 1 ELSE 0)]

\* The counters of an issue whose archive opened.
ValidStats(issue) ==
    [initialize_dict(OriginalJournalStats, 0) EXCEPT
        !["number valid original issues"] = @ + 1,
        !["number of pages"] = @ + Len(issue.pages),
        !["number tif"] = @ + NumberTif(issue.pages),
        !["number png"] = @ + NumberPng(issue.pages),
        !["number jpg"] = @ + NumberJpg(issue.pages),
        !["issues w large pdf"] = @ + (IF issue.big_pdfs THEN 1 ELSE 0),
        !["issues w small pdfs"] = @ + (IF issue.small_pdfs THEN 1 ELSE 0)]

\* NoZipResult that goes on to count the issue as valid.
NoZipResult_CountsValid(issue) ==
    [cases |-> SetDefaultAppend(EmptyDict, "issues w/o zip", ShortPath(issue.id)),
     stats |-> [initialize_dict(OriginalJournalStats, 0) EXCEPT
                   !["number valid original issues"] = @ + 1],
     counters |-> InitCounters,
     raised |-> FALSE]

\* Document.zip is not a file: the case is recorded and the function falls
\* through to its return.
NoZipResult(issue) ==
    [cases |-> SetDefaultAppend(EmptyDict, "issues w/o zip", ShortPath(issue.id)),
     stats |-> initialize_dict(OriginalJournalStats, 0),
     counters |-> InitCounters,
     raised |-> FALSE]

\* CorruptZipResult that only logs the bad archive and records no case.
CorruptZipResult_LogOnly(issue) ==
    [cases |-> EmptyDict,
     stats |-> initialize_dict(OriginalJournalStats, 0),
     counters |-> InitCounters,
     raised |-> FALSE]

\* CorruptZipResult without the except clause: the exception leaves the function.
CorruptZipResult_Uncaught(issue) ==
    [cases |-> EmptyDict,
     stats |-> initialize_dict(OriginalJournalStats, 0),
     counters |-> InitCounters,
     raised |-> TRUE]

\* zipfile.BadZipFile is caught: the case is recorded and the function returns.
CorruptZipResult(issue) ==
    [cases |-> SetDefaultAppend(EmptyDict, "issues w/ corruptedzip", ShortPath(issue.id)),
     stats |-> initialize_dict(OriginalJournalStats, 0),
     counters |-> InitCounters,
     raised |-> FALSE]

\* "if archive ok, proceed"
ArchiveResult(issue) ==
    LET c == CountPages(InitCounters, issue.pages, issue.pages)
        case == ReportCase(c, Len(issue.pages))
    IN  [cases |-> IF case # "None"
                   THEN SetDefaultAppend(EmptyDict, case, ShortPath(issue.id))
                   ELSE EmptyDict,
         stats |-> ValidStats(issue),
         counters |-> c,
         raised |-> FALSE]

\* check_original_issue(issue_dir_original): the returned pair, the page
\* counters at the return, and whether an exception left the function.
check_original_issue(issue) ==
    IF issue.zip = "absent" THEN NoZipResult(issue)
    ELSE IF issue.zip = "corrupt" THEN CorruptZipResult(issue)
    ELSE ArchiveResult(issue)

\* ---------------------------------------------------------------- specification: one original issue
NoReturn == [cases |-> EmptyDict, stats |-> EmptyDict]

\* ---------------------------------------------------------------- archive and file handles
\* the handle zipfile.ZipFile(working_archive) gives to the function named by
ArchiveHandle(issue, by) ==
    [issue |-> issue.id,
     file |-> <<"D", "o", "c", "u", "m", "e", "n", "t", ".", "z", "i", "p">>,
     by |-> by]

\* check_original_issue opens the archive when it is a readable zip file; a
\* constructor that raises BadZipFile keeps no file open
OpenedByOriginal(issue) ==
    IF issue.zip = "ok" THEN {ArchiveHandle(issue, "check_original_issue")} ELSE {}

\* check_original_issue has no close() and no with statement
ClosedByOriginal(issue) == {}

\* what check_original_issue leaves to the finalizer of the ZipFile object
LeftOpenByOriginal(issue) == OpenedByOriginal(issue) \ ClosedByOriginal(issue)

Init ==
    /\ open_handles = {}
    /\ pc = "start"
    /\ issue_dir_original \in OriginalIssueDirs("i1", PageKinds, MaxPages)
    /\ issue_dir_canonical = NoCanonicalIssue
    /\ original_issues = <<>>
    /\ canonical_issues = <<>>
    /\ results = <<>>
    /\ returned = NoReturn
    /\ locals = InitCounters

CheckOriginalIssue ==
    /\ open_handles' = open_handles \cup LeftOpenByOriginal(issue_dir_original)
    /\ pc = "start"
    /\ LET r == check_original_issue(issue_dir_original)
       IN  /\ returned' = [cases |-> r.cases, stats |-> r.stats]
           /\ locals' = r.counters
    /\ pc' = "done"
    /\ UNCHANGED <<issue_dir_original, issue_dir_canonical, original_issues,
                   canonical_issues, results>>

Next == CheckOriginalIssue

Spec == Init /\ [][Next]_vars

\* ---------------------------------------------------------------- check_original_journal
\* MergeCases that replaces the global list by the entry of the current issue.
RECURSIVE MergeCases_Overwrite(_, _, _)
MergeCases_Overwrite(members, global, local_cases) ==
    IF members = <<>> THEN global
    ELSE LET member == Head(members)
             g == IF member \in DOMAIN local_cases
                  THEN [k \in DOMAIN global \cup {member} |->
                           IF k = member THEN <<local_cases[member][1]>> ELSE global[k]]
                  ELSE global
         IN  MergeCases_Overwrite(Tail(members), g, local_cases)

\* "handle results", cases: for each member of the enum, in declaration order,
\* the first entry of the local list is appended to the global list.
RECURSIVE MergeCases(_, _, _)
MergeCases(members, global, local_cases) ==
    IF members = <<>> THEN global
    ELSE LET member == Head(members)
             g == IF member \in DOMAIN local_cases
                  THEN SetDefaultAppend(global, member, local_cases[member][1])
                  ELSE global
         IN  MergeCases(Tail(members), g, local_cases)

\* MergeStats that keeps the counter of the issue merged last.
MergeStats_LastWins(members, global, local_stats) ==
    [k \in DOMAIN global |->
        IF k \in Values(members) /\ k \in DOMAIN local_stats
        THEN local_stats[k]
        ELSE global[k]]

\* MergeStats that keeps the largest per-issue counter instead of the sum.
MergeStats_Max(members, global, local_stats) ==
    [k \in DOMAIN global |->
        IF k \in Values(members) /\ k \in DOMAIN local_stats /\ local_stats[k] > global[k]
        THEN local_stats[k]
        ELSE global[k]]

\* "handle results", counters: each counter of the enum is added up.
MergeStats(members, global, local_stats) ==
    [k \in DOMAIN global |->
        IF k \in Values(members) /\ k \in DOMAIN local_stats
        THEN global[k] + local_stats[k]
        ELSE global[k]]

\* The loop "for local_cases, local_stats in results".
RECURSIVE HandleResults(_, _, _, _)
HandleResults(case_enum, stat_enum, acc, rest) ==
    IF rest = <<>> THEN acc
    ELSE HandleResults(case_enum, stat_enum,
                       [cases |-> MergeCases(case_enum, acc.cases, Head(rest).cases),
                        stats |-> MergeStats(stat_enum, acc.stats, Head(rest).stats)],
                       Tail(rest))

\* the journals given to check_original_journal
OriginalJournals ==
    UNION {{j \in [1..n -> UNION {OriginalIssueDirs(IssueIds[i], JournalPageKinds, MaxJournalItems) :
                                    i \in 1..n}] :
              \A i \in 1..n : j[i].id = IssueIds[i]} : n \in 0..MaxIssues}

InitOriginalJournal ==
    /\ open_handles = {}
    /\ pc = "start"
    /\ issue_dir_original = NoIssue
    /\ issue_dir_canonical = NoCanonicalIssue
    /\ original_issues \in OriginalJournals
    /\ canonical_issues = <<>>
    /\ results = <<>>
    /\ returned = NoReturn
    /\ locals = InitCounters

\* results = utils.executetask(tasks, parallel_execution): every task is run;
\* an exception raised by a task leaves check_original_journal.
ExecuteOriginalTasks ==
    /\ open_handles' = open_handles \cup
          UNION {LeftOpenByOriginal(original_issues[i]) : i \in 1..Len(original_issues)}
    /\ pc = "start"
    /\ results' = [i \in 1..Len(original_issues) |-> check_original_issue(original_issues[i])]
    /\ pc' = IF \E i \in 1..Len(original_issues) : results'[i].raised
             THEN "aborted" ELSE "handle"
    /\ UNCHANGED <<issue_dir_original, issue_dir_canonical, original_issues,
                   canonical_issues, returned, locals>>

\* the merge of the per-issue results and the return
HandleOriginalResults ==
    /\ UNCHANGED open_handles
    /\ pc = "handle"
    /\ returned' = HandleResults(OriginalImageCase, OriginalJournalStats,
                      [cases |-> EmptyDict,
                       stats |-> [initialize_dict(OriginalJournalStats, 0) EXCEPT
                                     !["number original issues"] = Len(original_issues)]],
                      results)
    /\ pc' = "done"
    /\ UNCHANGED <<issue_dir_original, issue_dir_canonical, original_issues,
                   canonical_issues, results, locals>>

NextOriginalJournal == ExecuteOriginalTasks \/ HandleOriginalResults

SpecOriginalJournal == InitOriginalJournal /\ [][NextOriginalJournal]_vars

\* ---------------------------------------------------------------- specification: handles over a sequential journal run
InitHandles == InitOriginalJournal /\ original_issues # <<>>

\* utils.executetask without parallel execution: the tasks run one after the
\* other, each check returning before the next one starts
CheckNextOriginalIssue ==
    /\ pc = "start"
    /\ Len(results) < Len(original_issues)
    /\ LET issue == original_issues[Len(results) + 1]
           r == check_original_issue(issue)
       IN  /\ results' = Append(results, r)
           /\ open_handles' = open_handles \cup LeftOpenByOriginal(issue)
           /\ pc' = IF r.raised THEN "aborted"
                    ELSE IF Len(results') = Len(original_issues) THEN "handle"
                    ELSE "start"
    /\ UNCHANGED <<issue_dir_original, issue_dir_canonical, original_issues,
                   canonical_issues, returned, locals>>

\* The ZipFile object of a finished check is no longer referenced; its
\* finalizer closes the file whenever the interpreter collects the object.
FinalizeHandle ==
    /\ \E h \in open_handles : open_handles' = open_handles \ {h}
    /\ UNCHANGED <<pc, issue_dir_original, issue_dir_canonical, original_issues,
                   canonical_issues, results, returned, locals>>

NextHandles == CheckNextOriginalIssue \/ HandleOriginalResults \/ FinalizeHandle

SpecHandles == InitHandles /\ [][NextHandles]_vars

\* ---------------------------------------------------------------- strings
\* File names and path segments are sequences of characters.
UpperLetters == {"A", "B", "C", "D", "E", "F", "G", "H", "I", "J", "K", "L", "M",
                 "N", "O", "P", "Q", "R", "S", "T", "U", "V", "W", "X", "Y", "Z"}
LowerLetters == {"a", "b", "c", "d", "e", "f", "g", "h", "i", "j", "k", "l", "m",
                 "n", "o", "p", "q", "r", "s", "t", "u", "v", "w", "x", "y", "z"}
Digits == {"0", "1", "2", "3", "4", "5", "6", "7", "8", "9"}
DigitChars == <<"0", "1", "2", "3", "4", "5", "6", "7", "8", "9">>

\* sub in s
Contains(sub, s) ==
    \E k \in 0..(Len(s) - Len(sub)) : SubSeq(s, k + 1, k + Len(sub)) = sub

\* s.index(ch), 1-based; 0 when ch does not occur (Python raises ValueError)
IndexOf(ch, s) ==
    IF \E k \in 1..Len(s) : s[k] = ch
    THEN CHOOSE k \in 1..Len(s) : s[k] = ch /\ \A m \in 1..(k - 1) : s[m] # ch
    ELSE 0

\* os.path.splitext(name)[0]
SplitExtRoot(name) ==
    LET dots == {k \in 2..Len(name) : name[k] = "."}
    IN  IF dots = {} THEN name
        ELSE SubSeq(name, 1, (CHOOSE k \in dots : \A m \in dots : m <= k) - 1)

\* ZFill4 padding to three characters only.
RECURSIVE ZFill4_Three(_)
ZFill4_Three(x) == IF Len(x) >= 3 THEN x ELSE ZFill4_Three(<<"0">> \o x)

\* x.zfill(4)
RECURSIVE ZFill4(_)
ZFill4(x) == IF Len(x) >= 4 THEN x ELSE ZFill4(<<"0">> \o x)

\* str(n) for a page number
RECURSIVE DecimalStr(_)
DecimalStr(n) ==
    IF n < 10 THEN <<DigitChars[n + 1]>>
    ELSE Append(DecimalStr(n \div 10), DigitChars[(n % 10) + 1])

\* ---------------------------------------------------------------- enums of the canonical check
CanonicalImageCase ==
    <<"issues w/o jp2", "issues w/ incorrect # infofile", "pages w/o jp2",
      "issues w/o infofile", "infofile w/ incorrect # img",
      "jp2 w/ incorrect filename", "jp2 w/o journalname",
      "infofile w/o journalname", "jp2 w/ incorrect date",
      "infofile w/ incorrect date", "jp2_wrongdimensions">>

\* The enum member CanonicalImageCase.jp2_wrongdimensions itself, which is not
\* equal to its value, the string 'jp2_wrongdimensions'.
Member_jp2_wrongdimensions == "CanonicalImageCase.jp2_wrongdimensions"

CanonicalImageStats ==
    <<"number tif", "number png", "number jpg", "total size jp2",
      "number original page folders", "number canonical jp2">>

CanonicalJournalStats ==
    <<"number original issues", "number canonical issues",
      "number recognized pairs", "issues w/o zip", "issues w/ corruptedzip">>

\* ---------------------------------------------------------------- inputs of the canonical check
\* issue_dir.journal and str(issue_dir.date) of the issue under check
Journal == <<"G", "D", "L">>
DateStr == <<"1", "9", "0", "0", "-", "0", "1", "-", "1", "1">>
OtherDateStr == <<"1", "9", "0", "0", "-", "0", "1", "-", "1", "2">>

Jp2Name(journal, date, pagechars) ==
    journal \o <<"-">> \o date \o <<"-", "a", "-", "p">> \o pagechars \o <<".", "j", "p", "2">>

InfoName(prefix, date) ==
    prefix \o date \o <<"-", "a", "-", "i", "m", "a", "g", "e", "-", "i", "n", "f", "o",
                        ".", "j", "s", "o", "n">>

\* jp2 files that glob may find in a canonical directory
Jp2Files ==
    {[name |-> Jp2Name(Journal, DateStr, <<"0", "0", "0", "1">>), size |-> 1],
     [name |-> Jp2Name(Journal, DateStr, <<"0", "0", "0", "2">>), size |-> 2],
     [name |-> Jp2Name(<<"J", "D", "G">>, DateStr, <<"0", "0", "0", "1">>), size |-> 1],
     [name |-> Jp2Name(Journal, OtherDateStr, <<"0", "0", "0", "1">>), size |-> 2],
     [name |-> Jp2Name(Journal, DateStr, <<"0", "0", "1">>), size |-> 1]}

\* names of the json files that glob may find first
InfoNames ==
    {InfoName(Journal \o <<"-">>, DateStr),
     InfoName(<<>>, DateStr),
     InfoName(<<"X">> \o Journal \o <<"-">>, DateStr),
     InfoName(Journal \o <<"-">>, OtherDateStr),
     <<"i", "n", "f", "o", ".", "j", "s", "o", "n">>}

\* the lists glob may return for "*.json": none, one file, or two files
InfoLists ==
    {<<>>} \cup {<<n>> : n \in InfoNames}
           \cup {<<InfoName(Journal \o <<"-">>, DateStr), InfoName(<<>>, DateStr)>>}

\* records of the metadata file: source label, source and derived dimensions
RecordKinds ==
    {[s |-> l, s_dim |-> <<1, 1>>, d_dim |-> <<1, 1>>] :
        l \in {<<"t", "i", "f">>, <<"p", "n", "g">>, <<"j", "p", "g">>, <<"b", "m", "p">>}}
    \cup {[s |-> <<"t", "i", "f">>, s_dim |-> <<1, 1>>, d_dim |-> <<1, 2>>]}

DistinctSeqs(S, n) ==
    {q \in SeqsUpTo(S, n) : \A a, b \in 1..Len(q) : a # b => q[a].name # q[b].name}

\* A canonical issue directory: the jp2 files, the json files and the content
\* of the first json file.
CanonicalIssueDirs(id, files, maxJp2, infoLists, recordKinds, maxRecords) ==
    {[id |-> id, jp2 |-> j, info |-> <<>>, records |-> <<>>] :
        j \in DistinctSeqs(files, maxJp2)}
    \cup {[id |-> id, jp2 |-> j, info |-> f, records |-> r] :
            j \in DistinctSeqs(files, maxJp2), f \in infoLists \ {<<>>},
            r \in SeqsUpTo(recordKinds, maxRecords)}

TifPage == [tif |-> 1, png |-> 0, jpg |-> 0]
PngPage == [tif |-> 0, png |-> 1, jpg |-> 0]

\* The original issue directory of a pair.
PairOriginalDirs(id, kinds, maxPages) ==
    {[id |-> id, zip |-> z] @@ NoArchive : z \in {"absent", "corrupt"}}
    \cup {[id |-> id, zip |-> "ok", pages |-> p, big_pdfs |-> FALSE, small_pdfs |-> FALSE] :
            p \in SeqsUpTo(kinds, maxPages)}

\* img_utils.get_page_folders(archive): the folder of page i is named str(i)
PageFolders(issue) == [i \in 1..Len(issue.pages) |-> DecimalStr(i)]

FilePath(id, name) == [issue |-> id, kind |-> "file", name |-> name]
PagePath(id, page) == [issue |-> id, kind |-> "page", name |-> page]

\* ---------------------------------------------------------------- check_image_pairs
\* PageKey taking the last four characters, extension included.
PageKey_WithExtension(img) == SubSeq(img, Len(img) - 3, Len(img))

\* img[-8:-4]
PageKey(img) == SubSeq(img, Len(img) - 7, Len(img) - 4)

\* page.split('/')[-1]
LastSegment(page) ==
    LET slashes == {k \in 1..Len(page) : page[k] = "/"}
    IN  IF slashes = {} THEN page
        ELSE SubSeq(page, (CHOOSE k \in slashes : \A m \in slashes : m <= k) + 1, Len(page))

check_image_pairs(page_folders, jp2) ==
    LET d == {PageKey(jp2[k].name) : k \in 1..Len(jp2)}
    IN  SelectSeq(page_folders, LAMBDA page : ZFill4(LastSegment(page)) \notin d)

\* ---------------------------------------------------------------- specification: check_image_pairs
\* full paths of page folders: pages 1, 2 and 10, and a folder name of five characters
PagePaths ==
    {<<"G", "D", "L", "/", "1">>, <<"G", "D", "L", "/", "2">>,
     <<"G", "D", "L", "/", "1", "0">>, <<"G", "D", "L", "/", "0", "0", "0", "0", "1">>}

\* jp2 files of pages 1, 2 and 10, and one with a page number of three digits
PairJp2Files ==
    {[name |-> Jp2Name(Journal, DateStr, <<"0", "0", "0", "1">>), size |-> 1],
     [name |-> Jp2Name(Journal, DateStr, <<"0", "0", "0", "2">>), size |-> 1],
     [name |-> Jp2Name(Journal, DateStr, <<"0", "0", "1", "0">>), size |-> 1],
     [name |-> Jp2Name(Journal, DateStr, <<"0", "0", "1">>), size |-> 1]}

\* the two lists check_canonical_issue may hand to check_image_pairs
InitImagePairs ==
    /\ open_handles = {}
    /\ pc = "start"
    /\ issue_dir_original = NoIssue
    /\ issue_dir_canonical = NoCanonicalIssue
    /\ original_issues = <<>>
    /\ canonical_issues = <<>>
    /\ results = <<>>
    /\ returned = NoReturn
    /\ locals \in [page_folders : SeqsUpTo(PagePaths, MaxPairPages),
                    jp2 : DistinctSeqs(PairJp2Files, MaxJp2)]

\* the call check_image_pairs(page_folders, jp2)
CallCheckImagePairs ==
    /\ UNCHANGED open_handles
    /\ pc = "start"
    /\ returned' = check_image_pairs(locals.page_folders, locals.jp2)
    /\ pc' = "pairs_done"
    /\ UNCHANGED <<issue_dir_original, issue_dir_canonical, original_issues,
                   canonical_issues, results, locals>>

NextImagePairs == CallCheckImagePairs

SpecImagePairs == InitImagePairs /\ [][NextImagePairs]_vars

\* ---------------------------------------------------------------- check_canonical_issue
\* path.check_filenaming(basename): <JOURNAL>-<yyyy>-<mm>-<dd>-<edition>-p<nnnn>
check_filenaming(basename) ==
    LET h == IndexOf("-", basename)
        tail == SubSeq(basename, h, Len(basename))
    IN  /\ h > 1
        /\ \A k \in 1..(h - 1) : basename[k] \in UpperLetters
        /\ Len(tail) = 19
        /\ \A k \in {1, 6, 9, 12, 14} : tail[k] = "-"
        /\ \A k \in {2, 3, 4, 5, 7, 8, 10, 11, 16, 17, 18, 19} : tail[k] \in Digits
        /\ tail[13] \in LowerLetters
        /\ tail[15] = "p"

\* Body of "for img_file in jp2" for one image: the three naming checks and the
\* size tally. acc holds the case map, jp2_bytes and the size counter.
CheckJp2(acc, id, img) ==
    LET shortjp2 == FilePath(id, img.name)
        basename == SplitExtRoot(img.name)
        c1 == IF ~check_filenaming(basename)
              THEN SetDefaultAppend(acc.cases, "jp2 w/ incorrect filename", shortjp2)
              ELSE acc.cases
        c2 == IF ~Contains(Journal, basename)
              THEN SetDefaultAppend(c1, "jp2 w/o journalname", shortjp2)
              ELSE c1
        c3 == IF ~Contains(DateStr, basename)
              THEN SetDefaultAppend(c2, "jp2 w/ incorrect date", shortjp2)
              ELSE c2
        jp2_bytes == acc.jp2_bytes + img.size
    IN  [cases |-> c3, jp2_bytes |-> jp2_bytes, size_jp2 |-> acc.size_jp2 + jp2_bytes]

RECURSIVE CheckJp2s(_, _, _)
CheckJp2s(acc, id, rest) ==
    IF rest = <<>> THEN acc
    ELSE CheckJp2s(CheckJp2(acc, id, Head(rest)), id, Tail(rest))

\* "jp2 simple check"
Jp2SimpleCheck(cases, id, jp2) ==
    IF jp2 = <<>>
    THEN [cases |-> SetDefaultAppend(cases, "issues w/o jp2", ShortPath(id)),
          jp2_bytes |-> 0, size_jp2 |-> 0]
    ELSE CheckJp2s([cases |-> cases, jp2_bytes |-> 0, size_jp2 |-> 0], id, jp2)

\* baseinfo.index("-") raises ValueError when the name has no hyphen
InfoNameRaises(info) == info # <<>> /\ IndexOf("-", info[1]) = 0

\* "info simple check" (for a name on which index does not raise)
InfoSimpleCheck(cases, id, info) ==
    IF info = <<>>
    THEN SetDefaultAppend(cases, "issues w/o infofile", ShortPath(id))
    ELSE LET shortinfo == FilePath(id, info[1])
             baseinfo == info[1]
             infojournal == SubSeq(baseinfo, 1, IndexOf("-", baseinfo) - 1)
             c1 == IF Len(info) # 1
                   THEN SetDefaultAppend(cases, "issues w/ incorrect # infofile", ShortPath(id))
                   ELSE cases
             c2 == IF Journal # infojournal
                   THEN SetDefaultAppend(c1, "infofile w/o journalname", shortinfo)
                   ELSE c1
             c3 == IF ~Contains(DateStr, baseinfo)
                   THEN SetDefaultAppend(c2, "infofile w/ incorrect date", shortinfo)
                   ELSE c2
         IN  c3

\* DetailedCheckApplies with the test on jp2 left out.
DetailedCheckApplies_InfoOnly(info, jp2) == info # <<>>

\* "if info and jp2"
DetailedCheckApplies(info, jp2) == info # <<>> /\ jp2 # <<>>

\* the pages without a jp2 twin recorded under 'pages w/o jp2'
RECURSIVE RecordPages(_, _, _)
RecordPages(cases, id, pages) ==
    IF pages = <<>> THEN cases
    ELSE RecordPages(SetDefaultAppend(cases, "pages w/o jp2", PagePath(id, Head(pages))),
                     id, Tail(pages))

\* Body of "for i in info" for one record: the source format tally and the
\* dimension check. acc holds the case map and the three format counters.
CheckRecord(acc, shortinfo, i) ==
    LET source == i.s
        fmt == IF Contains(<<"t", "i", "f">>, source) THEN "number tif"
               ELSE IF Contains(<<"p", "n", "g">>, source) THEN "number png"
               ELSE IF Contains(<<"j", "p", "g">>, source) THEN "number jpg"
               ELSE "none"
    IN  [cases |-> IF i.s_dim # i.d_dim
                   THEN SetDefaultAppend(acc.cases, Member_jp2_wrongdimensions, shortinfo)
                   ELSE acc.cases,
         counts |-> IF fmt # "none" THEN [acc.counts EXCEPT ![fmt] = @ + 1]
                    ELSE acc.counts]

RECURSIVE CheckRecords(_, _, _)
CheckRecords(acc, shortinfo, rest) ==
    IF rest = <<>> THEN acc
    ELSE CheckRecords(CheckRecord(acc, shortinfo, Head(rest)), shortinfo, Tail(rest))

\* "info and jp2 detailed check"
DetailedCheck(cases, id, page_folders, canon) ==
    LET shortinfo == FilePath(id, canon.info[1])
        c1 == RecordPages(cases, id, check_image_pairs(page_folders, canon.jp2))
        r == CheckRecords([cases |-> c1,
                           counts |-> [k \in {"number tif", "number png", "number jpg"} |-> 0]],
                          shortinfo, canon.records)
    IN  [cases |-> IF Len(canon.records) # Len(canon.jp2)
                   THEN SetDefaultAppend(r.cases, "infofile w/ incorrect # img", shortinfo)
                   ELSE r.cases,
         counts |-> r.counts]

\* check_canonical_issue(issue_dir_original, issue_dir_canonical): the returned
\* pair, or raised when an exception leaves the function.
check_canonical_issue(orig, canon) ==
    LET id == canon.id
        page_folders == IF orig.zip = "ok" THEN PageFolders(orig) ELSE <<>>
        j == Jp2SimpleCheck(EmptyDict, id, canon.jp2)
        c2 == InfoSimpleCheck(j.cases, id, canon.info)
        zero == [k \in {"number tif", "number png", "number jpg"} |-> 0]
        d == IF DetailedCheckApplies(canon.info, canon.jp2)
             THEN DetailedCheck(c2, id, page_folders, canon)
             ELSE [cases |-> c2, counts |-> zero]
    IN  IF InfoNameRaises(canon.info)
        THEN [cases |-> EmptyDict, stats |-> EmptyDict, raised |-> TRUE]
        ELSE [cases |-> d.cases,
              stats |-> [initialize_dict(CanonicalImageStats, 0) EXCEPT
                            !["number original page folders"] = @ + Len(page_folders),
                            !["number canonical jp2"] = @ + Len(canon.jp2),
                            !["total size jp2"] = @ + j.size_jp2,
                            !["number tif"] = @ + d.counts["number tif"],
                            !["number png"] = @ + d.counts["number png"],
                            !["number jpg"] = @ + d.counts["number jpg"]],
              raised |-> FALSE]

\* the handle open(info[0]) gives
InfoHandle(canon) == [issue |-> canon.id, file |-> canon.info[1], by |-> "check_canonical_issue"]

\* the metadata file is opened when the detailed check is reached
InfoFileOpened(canon) ==
    IF ~InfoNameRaises(canon.info) /\ DetailedCheckApplies(canon.info, canon.jp2)
    THEN {InfoHandle(canon)} ELSE {}

\* check_canonical_issue opens the archive of the original issue, before any
\* other check, and the metadata file
OpenedByCanonical(orig, canon) ==
    (IF orig.zip = "ok" THEN {ArchiveHandle(orig, "check_canonical_issue")} ELSE {})
    \cup InfoFileOpened(canon)

\* "with open(info[0]) as f" closes the metadata file; the archive has no
\* close() and no with statement
ClosedByCanonical(orig, canon) == InfoFileOpened(canon)

\* what check_canonical_issue leaves to the finalizer of the ZipFile object
LeftOpenByCanonical(orig, canon) == OpenedByCanonical(orig, canon) \ ClosedByCanonical(orig, canon)

\* ---------------------------------------------------------------- specification: one issue pair
InitCanonicalIssue ==
    /\ open_handles = {}
    /\ pc = "start"
    /\ issue_dir_original \in PairOriginalDirs("i1", {TifPage, PngPage}, MaxPairPages)
    /\ issue_dir_canonical \in
          CanonicalIssueDirs("i1", Jp2Files, MaxJp2, InfoLists, RecordKinds, MaxRecords)
    /\ original_issues = <<>>
    /\ canonical_issues = <<>>
    /\ results = <<>>
    /\ returned = NoReturn
    /\ locals = InitCounters

\* check_canonical_issue on the pair
CheckCanonicalIssue ==
    /\ open_handles' = open_handles \cup
          LeftOpenByCanonical(issue_dir_original, issue_dir_canonical)
    /\ pc = "start"
    /\ LET r == check_canonical_issue(issue_dir_original, issue_dir_canonical)
       IN  /\ returned' = [cases |-> r.cases, stats |-> r.stats]
           /\ pc' = IF r.raised THEN "raised" ELSE "canonical_done"
    /\ UNCHANGED <<issue_dir_original, issue_dir_canonical, original_issues,
                   canonical_issues, results, locals>>

\* check_original_issue on the original issue of the same pair
CheckOriginalOfPair ==
    /\ open_handles' = open_handles \cup LeftOpenByOriginal(issue_dir_original)
    /\ pc = "canonical_done"
    /\ LET r == check_original_issue(issue_dir_original)
       IN  /\ results' = <<[cases |-> r.cases, stats |-> r.stats]>>
           /\ locals' = r.counters
    /\ pc' = "done"
    /\ UNCHANGED <<issue_dir_original, issue_dir_canonical, original_issues,
                   canonical_issues, returned>>

NextCanonicalIssue == CheckCanonicalIssue \/ CheckOriginalOfPair

SpecCanonicalIssue == InitCanonicalIssue /\ [][NextCanonicalIssue]_vars

\* ---------------------------------------------------------------- specification: the format tally
\* source labels of metadata records, two of them holding two format strings
TallyLabels ==
    {<<"t", "i", "f">>, <<"p", "n", "g">>, <<"j", "p", "g">>,
     <<"p", "n", "g", ".", "t", "i", "f">>, <<"j", "p", "g", ".", "p", "n", "g">>}

TallyRecordKinds == {[s |-> l, s_dim |-> <<1, 1>>, d_dim |-> <<1, 1>>] : l \in TallyLabels}

\* one pair whose canonical directory holds at most one well-named image and
\* at most one well-named metadata file
InitRecordTally ==
    /\ open_handles = {}
    /\ pc = "start"
    /\ issue_dir_original \in PairOriginalDirs("i1", {TifPage}, MaxJournalItems)
    /\ issue_dir_canonical \in
          CanonicalIssueDirs("i1", {[name |-> Jp2Name(Journal, DateStr, <<"0", "0", "0", "1">>),
                                     size |-> 1]},
                             MaxJournalItems,
                             {<<>>, <<InfoName(Journal \o <<"-">>, DateStr)>>},
                             TallyRecordKinds, MaxRecords)
    /\ original_issues = <<>>
    /\ canonical_issues = <<>>
    /\ results = <<>>
    /\ returned = NoReturn
    /\ locals = InitCounters

SpecRecordTally == InitRecordTally /\ [][NextCanonicalIssue]_vars

\* ---------------------------------------------------------------- check_canonical_journal
GoodJp2 == [name |-> Jp2Name(Journal, DateStr, <<"0", "0", "0", "1">>), size |-> 1]
GoodInfo == InfoName(Journal \o <<"-">>, DateStr)

\* two jp2 files of one directory that carry another journal's code
OtherJournalJp2s ==
    <<[name |-> Jp2Name(<<"J", "D", "G">>, DateStr, <<"0", "0", "0", "1">>), size |-> 1],
      [name |-> Jp2Name(<<"J", "D", "G">>, DateStr, <<"0", "0", "0", "2">>), size |-> 2]>>

\* the canonical directories of the journal runs
JournalCanonicalDirs(id) ==
    CanonicalIssueDirs(id, {GoodJp2}, MaxJournalItems, {<<>>, <<GoodInfo>>},
                       {r \in RecordKinds : r.s = <<"t", "i", "f">>}, MaxJournalItems)
    \cup {[id |-> id, jp2 |-> <<>>, info |-> <<<<"i", "n", "f", "o", ".", "j", "s", "o", "n">>>>,
           records |-> <<>>]}
    \cup {[id |-> id, jp2 |-> OtherJournalJp2s, info |-> <<>>, records |-> <<>>]}

\* What the issue discovery finds for the i-th identity: an original issue, a
\* canonical issue, or both.
JournalEntries(id) ==
    [orig : PairOriginalDirs(id, {TifPage}, MaxJournalItems) \cup {NoIssue},
     canon : JournalCanonicalDirs(id) \cup {NoCanonicalIssue}]
    \ {[orig |-> NoIssue, canon |-> NoCanonicalIssue]}

JournalListings ==
    UNION {{j \in [1..n -> UNION {JournalEntries(IssueIds[i]) : i \in 1..n}] :
              \A i \in 1..n : /\ j[i].orig.id \in {IssueIds[i], "none"}
                              /\ j[i].canon.id \in {IssueIds[i], "none"}} :
           n \in 0..MaxIssues}

InitCanonicalJournal ==
    /\ open_handles = {}
    /\ pc = "start"
    /\ issue_dir_original = NoIssue
    /\ issue_dir_canonical = NoCanonicalIssue
    /\ \E j \in JournalListings :
          /\ original_issues =
                SelectSeq([i \in 1..Len(j) |-> j[i].orig], LAMBDA o : o.id # "none")
          /\ canonical_issues =
                SelectSeq([i \in 1..Len(j) |-> j[i].canon], LAMBDA c : c.id # "none")
    /\ results = <<>>
    /\ returned = NoReturn
    /\ locals = InitCounters

\* path.pair_issue(original_issues, canonical_issues): the issues of both lists
\* that have the same identity
pair_issue(origs, canons) ==
    LET paired == SelectSeq(canons, LAMBDA c : \E k \in 1..Len(origs) : origs[k].id = c.id)
    IN  [p \in 1..Len(paired) |->
            [orig |-> origs[CHOOSE k \in 1..Len(origs) : origs[k].id = paired[p].id],
             canon |-> paired[p]]]

\* results = utils.executetask(tasks, parallel_execution): one task per pair; an
\* exception raised by a task leaves check_canonical_journal.
ExecuteCanonicalTasks ==
    /\ open_handles' = open_handles \cup
          UNION {LeftOpenByCanonical(pair_issue(original_issues, canonical_issues)[p].orig,
                                     pair_issue(original_issues, canonical_issues)[p].canon) :
                    p \in 1..Len(pair_issue(original_issues, canonical_issues))}
    /\ pc = "start"
    /\ LET pairs == pair_issue(original_issues, canonical_issues)
       IN  results' = [p \in 1..Len(pairs) |->
                          check_canonical_issue(pairs[p].orig, pairs[p].canon)]
    /\ pc' = IF \E p \in 1..Len(results') : results'[p].raised
             THEN "aborted" ELSE "handle"
    /\ UNCHANGED <<issue_dir_original, issue_dir_canonical, original_issues,
                   canonical_issues, returned, locals>>

\* JournalCounts that counts the original issues without container.
JournalCounts_CountsNoZip(origs, canons, pairs) ==
    [initialize_dict(CanonicalJournalStats, 0) EXCEPT
        !["number original issues"] = Len(origs),
        !["number canonical issues"] = Len(canons),
        !["number recognized pairs"] = Len(pairs),
        !["issues w/o zip"] = Cardinality({i \in 1..Len(origs) : origs[i].zip = "absent"})]

\* JournalCounts that reports the shorter of the two lists as the pairs.
JournalCounts_PairsAsMin(origs, canons, pairs) ==
    [initialize_dict(CanonicalJournalStats, 0) EXCEPT
        !["number original issues"] = Len(origs),
        !["number canonical issues"] = Len(canons),
        !["number recognized pairs"] =
            IF Len(origs) < Len(canons) THEN Len(origs) ELSE Len(canons)]

\* "counts at journal level"
JournalCounts(origs, canons, pairs) ==
    [initialize_dict(CanonicalJournalStats, 0) EXCEPT
        !["number original issues"] = Len(origs),
        !["number canonical issues"] = Len(canons),
        !["number recognized pairs"] = Len(pairs)]

\* "add local (issue) results to global (journal) results" and the return
HandleCanonicalResults ==
    /\ UNCHANGED open_handles
    /\ pc = "handle"
    /\ LET merged == HandleResults(CanonicalImageCase, CanonicalImageStats,
                        [cases |-> EmptyDict,
                         stats |-> initialize_dict(CanonicalImageStats, 0)],
                        results)
       IN  returned' =
              [cases |-> merged.cases,
               stats |-> merged.stats,
               journal_counts |->
                  JournalCounts(original_issues, canonical_issues,
                                pair_issue(original_issues, canonical_issues))]
    /\ pc' = "done"
    /\ UNCHANGED <<issue_dir_original, issue_dir_canonical, original_issues,
                   canonical_issues, results, locals>>

NextCanonicalJournal == ExecuteCanonicalTasks \/ HandleCanonicalResults

SpecCanonicalJournal == InitCanonicalJournal /\ [][NextCanonicalJournal]_vars

\* ---------------------------------------------------------------- claims on check_original_issue
\* The format that covers a page under the preference tif, png, jpg.
CoveredBy(page) ==
    IF page.tif > 0 THEN "tif"
    ELSE IF page.png > 0 THEN "png"
    ELSE IF page.jpg > 0 THEN "jpg"
    ELSE "missing"

PagesCoveredBy(issue, f) ==
    Cardinality({i \in 1..Len(issue.pages) : CoveredBy(issue.pages[i]) = f})

FormatsOf(issue) ==
    {f \in {"tif", "png", "jpg"} : PagesCoveredBy(issue, f) > 0}

OnlyCase(case, issue) == case :> <<ShortPath(issue.id)>>

OriginalDone == pc = "done" /\ issue_dir_original.zip = "ok"

\* C1: whatever the container (absent, unreadable, readable with any
\* inventory), the case map returned by check_original_issue holds exactly one
\* coverage case, and that case lists exactly the issue's short path.
C1_ExactlyOneCase ==
    pc = "done" =>
        /\ Cardinality(DOMAIN returned.cases) = 1
        /\ DOMAIN returned.cases \subseteq Values(OriginalImageCase)
        /\ \A k \in DOMAIN returned.cases :
              returned.cases[k] = <<ShortPath(issue_dir_original.id)>>

C1_Witness ==
    /\ OriginalDone
    /\ Len(issue_dir_original.pages) = 2
    /\ PagesCoveredBy(issue_dir_original, "missing") = 1
    /\ "issues_missing_pageimg" \in DOMAIN returned.cases

\* C2: for a container that opened, the case is issues_missing_pageimg when the
\* number of covered pages differs from the number of page folders, and otherwise
\* it is fixed by the set of formats with a non-zero page count.
C2_CaseTable ==
    OriginalDone =>
        LET issue == issue_dir_original
            covered == Len(issue.pages) - PagesCoveredBy(issue, "missing")
            formats == FormatsOf(issue)
        IN  /\ covered # Len(issue.pages) =>
                  returned.cases = OnlyCase("issues_missing_pageimg", issue)
            /\ covered = Len(issue.pages) =>
                  /\ formats = {"tif", "png", "jpg"} =>
                        returned.cases = OnlyCase("issues_heterocoverage_all", issue)
                  /\ formats = {"tif", "png"} =>
                        returned.cases = OnlyCase("issues_heterocoverage_tif_png", issue)
                  /\ formats = {"tif", "jpg"} =>
                        returned.cases = OnlyCase("issues_heterocoverage_tif_jpg", issue)
                  /\ formats = {"png", "jpg"} =>
                        returned.cases = OnlyCase("issues_heterocoverage_png_jpg", issue)
                  /\ formats = {"tif"} =>
                        returned.cases = OnlyCase("issues_homogeneouscoverage_tifs", issue)
                  /\ formats = {"jpg"} =>
                        returned.cases = OnlyCase("issues_homogeneouscoverage_jpgs", issue)

C2_Witness ==
    /\ OriginalDone
    /\ FormatsOf(issue_dir_original) = {"tif", "jpg"}
    /\ PagesCoveredBy(issue_dir_original, "missing") = 0
    /\ "issues_heterocoverage_tif_jpg" \in DOMAIN returned.cases

\* Every page is covered by png (no page has a tif, every page has a png).
AllPagesPng(issue) ==
    /\ Len(issue.pages) >= 1
    /\ \A i \in 1..Len(issue.pages) : issue.pages[i].tif = 0 /\ issue.pages[i].png >= 1

\* C3: an issue whose pages are all covered by png only, each covered page with
\* exactly one png image, is classified issues_homogeneouscoverage_singlepngs.
C3_SinglePngs ==
    (/\ OriginalDone
     /\ AllPagesPng(issue_dir_original)
     /\ \A i \in 1..Len(issue_dir_original.pages) :
           issue_dir_original.pages[i].png = 1 /\ issue_dir_original.pages[i].jpg = 0)
    => returned.cases = OnlyCase("issues_homogeneouscoverage_singlepngs", issue_dir_original)

\* C4: an issue whose pages are all covered by png only, at least one page with
\* several png images, is classified issues_homogeneouscoverage_pngs, and the
\* count of png-covered pages equals the number of page folders.
C4_SeveralPngs ==
    (/\ OriginalDone
     /\ AllPagesPng(issue_dir_original)
     /\ \E i \in 1..Len(issue_dir_original.pages) : issue_dir_original.pages[i].png > 1)
    => /\ returned.cases = OnlyCase("issues_homogeneouscoverage_pngs", issue_dir_original)
       /\ locals.pages_with_pngs = Len(issue_dir_original.pages)

C4_Witness ==
    /\ OriginalDone
    /\ AllPagesPng(issue_dir_original)
    /\ Len(issue_dir_original.pages) = MaxPages
    /\ Cardinality({i \in 1..MaxPages : issue_dir_original.pages[i].png > 1}) = 1
    /\ locals.pages_with_pngs = MaxPages

\* C5: every page folder is counted in exactly one of the buckets tif, png, jpg,
\* missing, chosen by the preference tif > png > jpg, so the four buckets add up
\* to the number of page folders.
C5_PageBuckets ==
    OriginalDone =>
        LET issue == issue_dir_original
            missing_pages == PagesCoveredBy(issue, "missing")
        IN  /\ locals.pages_with_tifs = PagesCoveredBy(issue, "tif")
            /\ locals.pages_with_pngs = PagesCoveredBy(issue, "png")
            /\ locals.pages_with_jpgs = PagesCoveredBy(issue, "jpg")
            /\ locals.pages_with_tifs + locals.pages_with_pngs + locals.pages_with_jpgs
                  + missing_pages = Len(issue.pages)

C5_Witness ==
    /\ OriginalDone
    /\ Len(issue_dir_original.pages) = 3
    /\ \E i \in 1..3 : /\ issue_dir_original.pages[i].tif > 0
                       /\ issue_dir_original.pages[i].png > 0
                       /\ issue_dir_original.pages[i].jpg > 0
    /\ PagesCoveredBy(issue_dir_original, "missing") = 1
    /\ locals.pages_with_jpgs = 1

\* C6: when the container file is absent, only 'issues w/o zip' is recorded for
\* the issue and every per-issue counter stays 0.
C6_NoZip ==
    (pc = "done" /\ issue_dir_original.zip = "absent") =>
        /\ returned.cases = OnlyCase("issues w/o zip", issue_dir_original)
        /\ \A k \in DOMAIN returned.stats : returned.stats[k] = 0
        /\ {"number valid original issues", "number of pages", "number tif",
            "number png", "number jpg", "issues w large pdf", "issues w small pdfs"}
              \subseteq DOMAIN returned.stats
        /\ locals = InitCounters

C6_Witness ==
    /\ pc = "done"
    /\ issue_dir_original.zip = "absent"
    /\ "issues w/o zip" \in DOMAIN returned.cases

\* ---------------------------------------------------------------- claims on check_original_journal
InSeq(x, seq) == \E i \in 1..Len(seq) : seq[i] = x

CorruptIssues == {i \in 1..Len(original_issues) : original_issues[i].zip = "corrupt"}

\* C7: a corrupt container never aborts the journal run: its issue gets the
\* single case 'issues w/ corruptedzip' with all counters 0, and the journal
\* result still holds the case of every other issue and the sum of all counters.
C7_CorruptNeverAborts ==
    CorruptIssues # {} =>
        /\ pc # "aborted"
        /\ pc \in {"handle", "done"} =>
              \A i \in CorruptIssues :
                 /\ results[i].cases = OnlyCase("issues w/ corruptedzip", original_issues[i])
                 /\ \A k \in DOMAIN results[i].stats : results[i].stats[k] = 0
        /\ pc = "done" =>
              /\ \A i \in 1..Len(original_issues) :
                    \E k \in DOMAIN results[i].cases :
                       /\ k \in DOMAIN returned.cases
                       /\ InSeq(ShortPath(original_issues[i].id), returned.cases[k])
                       /\ i \in CorruptIssues <=> k = "issues w/ corruptedzip"
              /\ \A k \in Values(OriginalJournalStats) \ {"number original issues"} :
                    returned.stats[k] =
                       SumSeq([i \in 1..Len(original_issues) |-> results[i].stats[k]])
              /\ returned.stats["number valid original issues"] =
                    Cardinality({i \in 1..Len(original_issues) : original_issues[i].zip = "ok"})

C7_Witness ==
    /\ pc = "done"
    /\ Len(original_issues) = 2
    /\ original_issues[1].zip = "corrupt"
    /\ original_issues[2].zip = "ok"
    /\ Len(original_issues[2].pages) = 1
    /\ "issues w/ corruptedzip" \in DOMAIN returned.cases
    /\ returned.stats["number of pages"] = 1

\* ---------------------------------------------------------------- claims on check_canonical_issue
CanonicalReturned == pc \in {"canonical_done", "done"}

\* C8: if 'issues w/o jp2' is emitted for a paired issue, none of
\* jp2_wrongdimensions, 'jp2 w/ incorrect filename' and 'pages w/o jp2' is
\* emitted for it, whatever the metadata file and the page folders contain.
C8_NoJp2SkipsImageChecks ==
    (CanonicalReturned /\ "issues w/o jp2" \in DOMAIN returned.cases) =>
        DOMAIN returned.cases \cap
            {"jp2_wrongdimensions", Member_jp2_wrongdimensions,
             "jp2 w/ incorrect filename", "pages w/o jp2"} = {}

C8_Witness ==
    /\ CanonicalReturned
    /\ "issues w/o jp2" \in DOMAIN returned.cases
    /\ issue_dir_original.zip = "ok"
    /\ Len(issue_dir_original.pages) = 2
    /\ issue_dir_canonical.info # <<>>
    /\ \E k \in 1..Len(issue_dir_canonical.records) :
          issue_dir_canonical.records[k].s_dim # issue_dir_canonical.records[k].d_dim

\* The page number i written on four digits.
FourDigits(i) ==
    <<DigitChars[((i \div 1000) % 10) + 1], DigitChars[((i \div 100) % 10) + 1],
      DigitChars[((i \div 10) % 10) + 1], DigitChars[(i % 10) + 1]>>

\* A well-named jp2 for page i: accepted by the naming validator, holding the
\* journal code and the date, and ending in the page number on four digits.
WellNamedFor(img, i) ==
    /\ check_filenaming(SplitExtRoot(img.name))
    /\ Contains(Journal, SplitExtRoot(img.name))
    /\ Contains(DateStr, SplitExtRoot(img.name))
    /\ SubSeq(img.name, Len(img.name) - 7, Len(img.name)) =
          FourDigits(i) \o <<".", "j", "p", "2">>

\* The pair is fully consistent: every original page has a tif, there is one
\* well-named jp2 per original page, exactly one metadata file named
\* <journal>-<date>..., and one record per image with equal dimensions.
FullyConsistent(orig, canon) ==
    /\ orig.zip = "ok"
    /\ \A i \in 1..Len(orig.pages) : orig.pages[i].tif > 0
    /\ Len(canon.jp2) = Len(orig.pages)
    /\ \A i \in 1..Len(orig.pages) : \E k \in 1..Len(canon.jp2) : WellNamedFor(canon.jp2[k], i)
    /\ Len(canon.info) = 1
    /\ SubSeq(canon.info[1], 1, Len(Journal) + 1) = Journal \o <<"-">>
    /\ Contains(DateStr, canon.info[1])
    /\ Len(canon.records) = Len(canon.jp2)
    /\ \A k \in 1..Len(canon.records) : canon.records[k].s_dim = canon.records[k].d_dim

NoAnomalyAndTifs ==
    /\ returned.cases = EmptyDict
    /\ results[1].cases = OnlyCase("issues_homogeneouscoverage_tifs", issue_dir_original)

\* C9 as stated: a fully consistent issue yields an empty case map from
\* check_canonical_issue and issues_homogeneouscoverage_tifs from
\* check_original_issue.
C9_AsStated ==
    (pc = "done" /\ FullyConsistent(issue_dir_original, issue_dir_canonical))
    => NoAnomalyAndTifs

\* C9 (amended): a fully consistent issue with at least one original page yields
\* an empty case map from check_canonical_issue and
\* issues_homogeneouscoverage_tifs from check_original_issue.
C9_ConsistentWithPages ==
    (/\ pc = "done"
     /\ FullyConsistent(issue_dir_original, issue_dir_canonical)
     /\ Len(issue_dir_original.pages) >= 1)
    => NoAnomalyAndTifs

C9_Witness ==
    /\ pc = "done"
    /\ FullyConsistent(issue_dir_original, issue_dir_canonical)
    /\ Len(issue_dir_original.pages) = 2
    /\ returned.cases = EmptyDict
    /\ returned.stats["number canonical jp2"] = 2

\* ---------------------------------------------------------------- claims on check_canonical_journal
\* C10: when the metadata of a paired issue holds a record whose source
\* dimensions differ from its derived dimensions, the case registry returned by
\* check_canonical_journal has an entry for that issue under jp2_wrongdimensions.
C10_WrongDimensionsReported ==
    pc = "done" =>
        \A c \in 1..Len(canonical_issues) :
            (/\ \E o \in 1..Len(original_issues) :
                   original_issues[o].id = canonical_issues[c].id
             /\ canonical_issues[c].jp2 # <<>>
             /\ canonical_issues[c].info # <<>>
             /\ \E k \in 1..Len(canonical_issues[c].records) :
                   canonical_issues[c].records[k].s_dim # canonical_issues[c].records[k].d_dim)
            => /\ "jp2_wrongdimensions" \in DOMAIN returned.cases
               /\ InSeq(FilePath(canonical_issues[c].id, canonical_issues[c].info[1]),
                        returned.cases["jp2_wrongdimensions"])

\* C11: the journal-level list of each anomaly case holds every identifier
\* that a per-issue check recorded under that case, also when one issue
\* recorded several images or pages under it.
C11_AllIdentifiersMerged ==
    pc = "done" =>
        \A p \in 1..Len(results) :
            \A k \in DOMAIN results[p].cases \cap Values(CanonicalImageCase) :
                \A e \in 1..Len(results[p].cases[k]) :
                    /\ k \in DOMAIN returned.cases
                    /\ InSeq(results[p].cases[k][e], returned.cases[k])

\* the byte sizes of the canonical images of the pair, in glob order
Jp2Sizes == [k \in 1..Len(issue_dir_canonical.jp2) |-> issue_dir_canonical.jp2[k].size]

\* C12: for a paired issue with at least one canonical image, 'total size jp2'
\* equals the sum of the byte sizes of the images, each file counted once.
C12_SizeIsSumOfFiles ==
    (CanonicalReturned /\ issue_dir_canonical.jp2 # <<>>) =>
        returned.stats["total size jp2"] = SumSeq(Jp2Sizes)

\* the original pages of the pair for which no canonical image ends in the
\* page number written on four digits
PagesWithoutTwin ==
    IF issue_dir_original.zip # "ok" THEN {}
    ELSE {i \in 1..Len(issue_dir_original.pages) :
            \A k \in 1..Len(issue_dir_canonical.jp2) :
                LET n == issue_dir_canonical.jp2[k].name
                IN  SubSeq(n, Len(n) - 7, Len(n) - 4) # FourDigits(i)}

\* C13: for a paired issue with at least one canonical image, every original
\* page folder without a canonical image of the same page key is recorded under
\* 'pages w/o jp2', with or without a metadata file in the canonical directory.
C13_EveryMissingPageReported ==
    (CanonicalReturned /\ issue_dir_canonical.jp2 # <<>>) =>
        \A i \in PagesWithoutTwin :
            /\ "pages w/o jp2" \in DOMAIN returned.cases
            /\ InSeq(PagePath("i1", DecimalStr(i)), returned.cases["pages w/o jp2"])

\* the metadata records of the pair whose source and derived dimensions differ
WrongDimRecords ==
    {r \in 1..Len(issue_dir_canonical.records) :
        issue_dir_canonical.records[r].s_dim # issue_dir_canonical.records[r].d_dim}

\* the number of entries recorded for mismatching dimensions
WrongDimEntries ==
    IF Member_jp2_wrongdimensions \in DOMAIN returned.cases
    THEN Len(returned.cases[Member_jp2_wrongdimensions]) ELSE 0

\* C14: once a paired issue with a metadata file and at least one canonical
\* image has been checked, 'infofile w/ incorrect # img' is recorded exactly when
\* the number of metadata records differs from the number of canonical images,
\* and every record has been dimension-checked whether or not the numbers differ.
C14_CrossCountAndDimensions ==
    (pc # "start" /\ issue_dir_canonical.info # <<>> /\ issue_dir_canonical.jp2 # <<>>) =>
        /\ ("infofile w/ incorrect # img" \in DOMAIN returned.cases)
              <=> (Len(issue_dir_canonical.records) # Len(issue_dir_canonical.jp2))
        /\ WrongDimEntries = Cardinality(WrongDimRecords)

\* C14 restricted to the runs in which check_canonical_issue returns
C14_WhenReturned == CanonicalReturned => C14_CrossCountAndDimensions

\* C15: no violation makes check_canonical_issue fail: whatever the image
\* names, metadata file names, records and container state, it returns.
C15_NeverRaises == pc # "raised"

\* ---------------------------------------------------------------- claims on the aggregation
\* the merge of check_original_journal over a list of per-issue results
MergedOriginal(res) ==
    HandleResults(OriginalImageCase, OriginalJournalStats,
                  [cases |-> EmptyDict,
                   stats |-> [initialize_dict(OriginalJournalStats, 0) EXCEPT
                                 !["number original issues"] = Len(res)]],
                  res)

\* the merge of check_canonical_journal over a list of per-pair results
MergedCanonical(res) ==
    HandleResults(CanonicalImageCase, CanonicalImageStats,
                  [cases |-> EmptyDict, stats |-> initialize_dict(CanonicalImageStats, 0)],
                  res)

\* the per-issue results of check_original_journal on the original issues
OriginalResults == [i \in 1..Len(original_issues) |-> check_original_issue(original_issues[i])]

Reordered(res, f) == [i \in 1..Len(res) |-> res[f[i]]]

Occurrences(x, seq) == Cardinality({i \in 1..Len(seq) : seq[i] = x})

\* two lists hold the same elements the same number of times
SameBag(a, b) ==
    /\ Len(a) = Len(b)
    /\ \A i \in 1..Len(a) : Occurrences(a[i], a) = Occurrences(a[i], b)

SameRegistry(a, b) ==
    /\ DOMAIN a = DOMAIN b
    /\ \A k \in DOMAIN a : SameBag(a[k], b[k])

\* C16: the aggregation does not depend on the order of the per-issue results:
\* merging them in any other order gives the registry check_canonical_journal
\* returned (each case list taken as an unordered collection) and the same
\* counters, and likewise for the merge of check_original_journal.
C16_OrderIndependent ==
    pc = "done" =>
        /\ \A f \in Permutations(1..Len(results)) :
              LET m == MergedCanonical(Reordered(results, f))
              IN  /\ SameRegistry(m.cases, returned.cases)
                  /\ m.stats = returned.stats
        /\ \A f \in Permutations(1..Len(OriginalResults)) :
              LET m == MergedOriginal(Reordered(OriginalResults, f))
              IN  /\ SameRegistry(m.cases, MergedOriginal(OriginalResults).cases)
                  /\ m.stats = MergedOriginal(OriginalResults).stats

\* two pairs with different cases and counters have been merged
C16_Witness ==
    /\ pc = "done"
    /\ Len(results) = 2
    /\ results[1].stats # results[2].stats
    /\ results[1].cases # results[2].cases
    /\ \E k \in DOMAIN returned.cases : Len(returned.cases[k]) = 2
    /\ OriginalResults[1].stats # OriginalResults[2].stats

\* the sum over the per-issue results of the counter k
RECURSIVE SumOfCounter(_, _)
SumOfCounter(res, k) ==
    IF res = <<>> THEN 0 ELSE Head(res).stats[k] + SumOfCounter(Tail(res), k)

\* C17: each image counter returned by check_canonical_journal is the sum over
\* the checked pairs of the per-issue counter of the same name; each counter of
\* check_original_journal is the sum over the original issues of the per-issue
\* counter, and 'number original issues' is the length of the issue list.
C17_CountersAreSums ==
    pc = "done" =>
        /\ DOMAIN returned.stats = Values(CanonicalImageStats)
        /\ \A k \in Values(CanonicalImageStats) :
              returned.stats[k] = SumOfCounter(results, k)
        /\ LET m == MergedOriginal(OriginalResults)
           IN  /\ DOMAIN m.stats = Values(OriginalJournalStats)
               /\ m.stats["number original issues"] = Len(original_issues)
               /\ \A k \in Values(OriginalJournalStats) \ {"number original issues"} :
                     m.stats[k] = SumOfCounter(OriginalResults, k)

\* two pairs with images and pages have been merged
C17_Witness ==
    /\ pc = "done"
    /\ Len(results) = 2
    /\ \A p \in 1..2 : results[p].stats["number canonical jp2"] > 0
    /\ returned.stats["number canonical jp2"] > 2
    /\ returned.stats["number original page folders"] = 2
    /\ returned.stats["number tif"] > 0

\* ---------------------------------------------------------------- claims on the journal counts
OriginalIds == {original_issues[i].id : i \in 1..Len(original_issues)}
CanonicalIds == {canonical_issues[i].id : i \in 1..Len(canonical_issues)}

\* the original issues without a canonical counterpart
UnpairedOriginals == OriginalIds \ CanonicalIds

\* the issues named by the identifiers of a case registry
IssuesNamedIn(cases) ==
    UNION {{cases[k][e].issue : e \in 1..Len(cases[k])} : k \in DOMAIN cases}

\* C18: an original issue without a canonical counterpart is left out of the
\* per-pair checks, is counted in 'number original issues' and not in 'number
\* recognized pairs', and the journal result carries an explicit count of the
\* unpaired issues.
C18_UnpairedCounted ==
    (pc = "done" /\ UnpairedOriginals # {}) =>
        /\ IssuesNamedIn(returned.cases) \cap UnpairedOriginals = {}
        /\ returned.journal_counts["number original issues"] = Len(original_issues)
        /\ returned.journal_counts["number recognized pairs"] =
              Cardinality(OriginalIds \cap CanonicalIds)
        /\ \E k \in DOMAIN returned.journal_counts \
                      {"number original issues", "number canonical issues",
                       "number recognized pairs"} :
              returned.journal_counts[k] = Cardinality(UnpairedOriginals)

\* C18 without the explicit count: the three statements on an unpaired issue
\* that the journal result does satisfy
C18_ExcludedAndCounted ==
    (pc = "done" /\ UnpairedOriginals # {}) =>
        /\ IssuesNamedIn(returned.cases) \cap UnpairedOriginals = {}
        /\ returned.journal_counts["number original issues"] = Len(original_issues)
        /\ returned.journal_counts["number recognized pairs"] =
              Cardinality(OriginalIds \cap CanonicalIds)
        /\ \A k \in DOMAIN returned.journal_counts \
                      {"number original issues", "number canonical issues",
                       "number recognized pairs"} :
              returned.journal_counts[k] = 0

\* C19: check_canonical_journal reports the number of original issues given,
\* the number of canonical issues given and the number of pairs built, runs one
\* per-issue check per pair, and the pairs are at most as many as either list.
C19_StructuralCounts ==
    /\ pc \in {"handle", "done"} =>
          /\ Len(results) = Cardinality(OriginalIds \cap CanonicalIds)
          /\ Len(results) <= Len(original_issues)
          /\ Len(results) <= Len(canonical_issues)
    /\ pc = "done" =>
          /\ returned.journal_counts["number original issues"] = Len(original_issues)
          /\ returned.journal_counts["number canonical issues"] = Len(canonical_issues)
          /\ returned.journal_counts["number recognized pairs"] = Len(results)

\* two original issues and one canonical issue, of which one pair was built
C19_Witness ==
    /\ pc = "done"
    /\ Len(original_issues) = 2
    /\ Len(canonical_issues) = 1
    /\ returned.journal_counts["number recognized pairs"] = 1
    /\ Len(results) = 1

\* ---------------------------------------------------------------- claims on the format tally
RecordsContaining(fmt) ==
    {r \in 1..Len(issue_dir_canonical.records) :
        Contains(fmt, issue_dir_canonical.records[r].s)}

\* C20: for a paired issue with a metadata file and at least one canonical
\* image, each of 'number tif', 'number png' and 'number jpg' is the number of
\* metadata records whose source label contains that format string.
C20_FormatCounters ==
    (CanonicalReturned /\ issue_dir_canonical.info # <<>> /\ issue_dir_canonical.jp2 # <<>>) =>
        /\ returned.stats["number tif"] = Cardinality(RecordsContaining(<<"t", "i", "f">>))
        /\ returned.stats["number png"] = Cardinality(RecordsContaining(<<"p", "n", "g">>))
        /\ returned.stats["number jpg"] = Cardinality(RecordsContaining(<<"j", "p", "g">>))

\* C20 for the labels that hold exactly one format string
C20_SingleFormatLabels ==
    (/\ CanonicalReturned
     /\ issue_dir_canonical.info # <<>>
     /\ issue_dir_canonical.jp2 # <<>>
     /\ RecordsContaining(<<"t", "i", "f">>) \cap RecordsContaining(<<"p", "n", "g">>) = {}
     /\ RecordsContaining(<<"p", "n", "g">>) \cap RecordsContaining(<<"j", "p", "g">>) = {}
     /\ RecordsContaining(<<"t", "i", "f">>) \cap RecordsContaining(<<"j", "p", "g">>) = {})
        => C20_FormatCounters

\* ---------------------------------------------------------------- claims on the canonical naming and completeness checks
Emitted(case) == case \in DOMAIN returned.cases

\* C21: the completeness cases are emitted exactly under their conditions and
\* independently of each other: 'issues w/o jp2' iff the directory has no
\* image, 'issues w/o infofile' iff it has no metadata file, 'issues w/
\* incorrect # infofile' iff it has more than one metadata file.
C21_CompletenessCases ==
    pc # "start" =>
        /\ Emitted("issues w/o jp2") <=> (issue_dir_canonical.jp2 = <<>>)
        /\ Emitted("issues w/o infofile") <=> (issue_dir_canonical.info = <<>>)
        /\ Emitted("issues w/ incorrect # infofile") <=> (Len(issue_dir_canonical.info) > 1)

\* C21 restricted to the runs in which check_canonical_issue returns
C21_WhenReturned == CanonicalReturned => C21_CompletenessCases

\* the canonical images recorded under a case, with the number of entries
EntriesOf(case, img) ==
    IF Emitted(case)
    THEN Occurrences(FilePath("i1", img.name), returned.cases[case])
    ELSE 0

\* C22: for every canonical image the three naming checks are applied
\* independently: the image is recorded once under 'jp2 w/ incorrect filename'
\* iff the validator rejects its basename, once under 'jp2 w/o journalname' iff
\* the basename does not contain the journal code, once under 'jp2 w/ incorrect
\* date' iff it does not contain the date string, and never more than once.
C22_NamingChecksIndependent ==
    pc # "start" =>
        \A k \in 1..Len(issue_dir_canonical.jp2) :
            LET img == issue_dir_canonical.jp2[k]
                basename == SubSeq(img.name, 1, Len(img.name) - 4)
            IN  /\ EntriesOf("jp2 w/ incorrect filename", img) =
                      (IF check_filenaming(basename) THEN 0 ELSE 1)
                /\ EntriesOf("jp2 w/o journalname", img) =
                      (IF Contains(Journal, basename) THEN 0 ELSE 1)
                /\ EntriesOf("jp2 w/ incorrect date", img) =
                      (IF Contains(DateStr, basename) THEN 0 ELSE 1)

\* C22 restricted to the runs in which check_canonical_issue returns
C22_WhenReturned == CanonicalReturned => C22_NamingChecksIndependent

\* C23: for a paired issue with a metadata file, 'infofile w/o journalname' is
\* emitted iff the metadata filename does not contain the journal code, and
\* 'infofile w/ incorrect date' iff it does not contain the date string.
C23_InfoNameContainment ==
    (pc # "start" /\ issue_dir_canonical.info # <<>>) =>
        /\ Emitted("infofile w/o journalname")
              <=> ~Contains(Journal, issue_dir_canonical.info[1])
        /\ Emitted("infofile w/ incorrect date")
              <=> ~Contains(DateStr, issue_dir_canonical.info[1])

\* C23 restricted to the runs in which check_canonical_issue returns
C23_WhenReturned == CanonicalReturned => C23_InfoNameContainment

\* C23 with the test the code applies to the journal code: the part of the
\* name before the first hyphen is the journal code
C23_PrefixBeforeHyphen ==
    (CanonicalReturned /\ issue_dir_canonical.info # <<>>) =>
        /\ Emitted("infofile w/o journalname")
              <=> (\A h \in 1..Len(issue_dir_canonical.info[1]) :
                      (/\ issue_dir_canonical.info[1][h] = "-"
                       /\ \A g \in 1..(h - 1) : issue_dir_canonical.info[1][g] # "-")
                      => SubSeq(issue_dir_canonical.info[1], 1, h - 1) # Journal)
        /\ Emitted("infofile w/ incorrect date")
              <=> ~Contains(DateStr, issue_dir_canonical.info[1])

\* ---------------------------------------------------------------- claims on the registries and on check_image_pairs
\* C25: the case registry returned by the journal-level checks has an entry,
\* mapped to an empty list, for a case that no issue exhibits.
C25_EveryCaseHasEntry ==
    pc = "done" =>
        /\ \A k \in Values(CanonicalImageCase) :
              k \in DOMAIN returned.cases
        /\ \A k \in Values(OriginalImageCase) :
              k \in DOMAIN MergedOriginal(OriginalResults).cases

\* the characters after the last "/" of a path
SegmentOf(path) ==
    LET start == IF \E k \in 1..Len(path) : path[k] = "/"
                 THEN CHOOSE k \in 1..Len(path) :
                         /\ path[k] = "/"
                         /\ \A m \in (k + 1)..Len(path) : path[m] # "/"
                 ELSE 0
    IN  [i \in 1..(Len(path) - start) |-> path[start + i]]

\* seg written on at least four characters, with zeros in front
Padded(seg) ==
    LET z == IF Len(seg) >= 4 THEN 0 ELSE 4 - Len(seg)
    IN  [i \in 1..(z + Len(seg)) |-> IF i <= z THEN "0" ELSE seg[i - z]]

\* the four characters before the extension ".jp2"
KeyOf(name) == [i \in 1..4 |-> name[Len(name) - 8 + i]]

HasTwin(path, jp2) == \E k \in 1..Len(jp2) : Padded(SegmentOf(path)) = KeyOf(jp2[k].name)

\* C26: check_image_pairs returns, in input order, exactly the page folders
\* whose last path segment padded with zeros to four characters is the four
\* characters before the extension of no jp2; it returns all of them when jp2
\* is empty, and it leaves both input lists as they were.
C26_ImagePairs ==
    [][pc' = "pairs_done" =>
          /\ returned' = SelectSeq(locals.page_folders,
                                   LAMBDA path : ~HasTwin(path, locals.jp2))
          /\ (locals.jp2 = <<>> => returned' = locals.page_folders)
          /\ locals' = locals]_vars

\* pages 1 and 2 both have their jp2 and nothing is returned; or page 10 is
\* returned alone, after page 1 which has its jp2
C26_Witness ==
    /\ pc = "pairs_done"
    /\ \/ /\ Len(locals.page_folders) = 2
          /\ locals.page_folders[1] # locals.page_folders[2]
          /\ Len(locals.jp2) = 2
          /\ returned = <<>>
       \/ /\ locals.page_folders = <<<<"G", "D", "L", "/", "1">>, <<"G", "D", "L", "/", "1", "0">>>>
          /\ returned = <<<<"G", "D", "L", "/", "1", "0">>>>

\* ---------------------------------------------------------------- claims on the original journal
RECURSIVE TotalEntries(_, _)
TotalEntries(cases, keys) ==
    IF keys = {} THEN 0
    ELSE LET k == CHOOSE x \in keys : TRUE
         IN  Len(cases[k]) + TotalEntries(cases, keys \ {k})

EntriesUnder(case) == IF Emitted(case) THEN Len(returned.cases[case]) ELSE 0

C28_ValidIssues ==
    pc = "done" =>
        returned.stats["number valid original issues"] =
            returned.stats["number original issues"]
                - EntriesUnder("issues w/o zip") - EntriesUnder("issues w/ corruptedzip")

\* a journal with a readable container and an absent or corrupt one
C28_Witness ==
    /\ pc = "done"
    /\ returned.stats["number original issues"] = 2
    /\ returned.stats["number valid original issues"] = 1
    /\ EntriesUnder("issues w/o zip") + EntriesUnder("issues w/ corruptedzip") = 1

\* C29: an original issue whose container opens and holds no page folder is
\* classified issues_homogeneouscoverage_tifs.
C29_NoPageFolder ==
    (OriginalDone /\ issue_dir_original.zip = "ok" /\ issue_dir_original.pages = <<>>) =>
        returned.cases = OnlyCase("issues_homogeneouscoverage_tifs", issue_dir_original)

\* a readable container without page folder has been checked
C29_Witness ==
    /\ OriginalDone
    /\ issue_dir_original.zip = "ok"
    /\ issue_dir_original.pages = <<>>
    /\ DOMAIN returned.cases = {"issues_homogeneouscoverage_tifs"}
    /\ returned.stats["number of pages"] = 0

\* ---------------------------------------------------------------- claims on containers in the canonical check
\* the original issue of the p-th pair
OriginalOfPair(p) == pair_issue(original_issues, canonical_issues)[p].orig

\* C30: in every result returned by check_canonical_journal the journal
\* counters 'issues w/o zip' and 'issues w/ corruptedzip' are 0, and a paired
\* issue whose original container is absent or unreadable gets no case for that
\* condition: its page-folder count is 0 and it never gets 'pages w/o jp2'.
C30_ContainerStateIgnored ==
    pc = "done" =>
        /\ returned.journal_counts["issues w/o zip"] = 0
        /\ returned.journal_counts["issues w/ corruptedzip"] = 0
        /\ \A p \in 1..Len(results) :
              OriginalOfPair(p).zip # "ok" =>
                  /\ results[p].stats["number original page folders"] = 0
                  /\ DOMAIN results[p].cases \cap
                        {"pages w/o jp2", "issues w/o zip", "issues w/ corruptedzip"} = {}
        /\ DOMAIN returned.cases \cap {"issues w/o zip", "issues w/ corruptedzip"} = {}

\* a pair with an absent and a pair with a corrupt container, both with images
\* and metadata, have been checked
C30_Witness ==
    /\ pc = "done"
    /\ Len(results) = 2
    /\ OriginalOfPair(1).zip = "absent"
    /\ OriginalOfPair(2).zip = "corrupt"
    /\ \A p \in 1..2 : /\ results[p].stats["number canonical jp2"] > 0
                       /\ results[p].stats["number tif"] > 0

\* ---------------------------------------------------------------- claims on handles
\* C24: every archive or file handle opened by a per-issue check is released
\* before that check returns, on every path: between two checks and after the
\* last one no handle is open.
C24_HandlesReleased == open_handles = {}

====
